---- MODULE Spec2Model ----
(***************************************************************************)
(* Model of ichosnomicon.py (class MusicPlaylistManager): the SQLite song  *)
(* table kept in the music root, the directory scan that rebuilds it, the  *)
(* library view query, the per-track edit operations and the pygame-based  *)
(* playback session.                                                       *)
(*                                                                         *)
(* Text is modelled as sequences of one-character strings so that the      *)
(* string operations of the code (suffix, lower-casing, LIKE matching,     *)
(* path joining) are computed and not assumed.                             *)
(***************************************************************************)
EXTENDS Integers, Sequences, FiniteSets, TLC

VARIABLES
    disk,              \* the music root on disk: relative path -> "absent" | "file" | "dir"
    songs,             \* table songs as seen through self.cursor (open transaction included)
    committed,         \* table songs as last committed to .music_manager.db
    seq,               \* sqlite_sequence value of table songs (AUTOINCREMENT)
    tree,              \* rows shown in self.library_tree
    filters,           \* the five filter entry fields
    current_edit_id,   \* self.current_edit_id (0 = attribute unset)
    edit_path,         \* history: relative_path of the row current_edit_id named when it was set
    report,            \* the message box shown by the last scan_directory call
    currently_playing, \* self.currently_playing (0 = None)
    is_playing,        \* self.is_playing
    current_volume,    \* self.current_volume, in percent
    song_length,       \* self.song_length, in seconds
    is_seeking,        \* self.is_seeking
    song_start_time,   \* self.song_start_time, in 1/100 s
    engine,            \* pygame.mixer.music: loaded file, volume, start offset, busy flag
    timers,            \* pending root.after callbacks, by kind
    shown,             \* position last written to the time label, in 1/100 s (-1 = "--:--")
    slider_state,      \* state option of self.seek_slider: "normal" | "disabled"
    PYGAME_AVAILABLE,  \* whether "import pygame; pygame.mixer.init()" succeeded at start-up
    sought,            \* history: target of the user's last seek that the engine did not
                       \* refuse, while no position has been shown since, in 1/100 s (-1 = none)
    last               \* record of the operation performed last (history)

vars == <<disk, songs, committed, seq, tree, filters, current_edit_id, edit_path, report,
          currently_playing, is_playing, current_volume, song_length, is_seeking,
          song_start_time, engine, timers, shown, slider_state, PYGAME_AVAILABLE,
          sought, last>>

libVars  == <<disk, songs, committed, seq, tree, filters, current_edit_id, edit_path, report>>
playVars == <<currently_playing, is_playing, current_volume, song_length, is_seeking,
              song_start_time, engine, timers, shown, slider_state, PYGAME_AVAILABLE,
                   sought>>

-----------------------------------------------------------------------------
(* Text helpers *)

EmptyStr == << >>

\* SQL NULL / Python None for a text column; no text equals it.
NULL == <<"NULL">>

\* str.lower() and SQLite LOWER() on the characters used by the model.
Lower(c) ==
    CASE c = "A" -> "a"
      [] c = "B" -> "b"
      [] c = "M" -> "m"
      [] c = "P" -> "p"
      [] c = "S" -> "s"
      [] OTHER -> c

LowerStr(s) == [i \in DOMAIN s |-> Lower(s[i])]

\* Index of the last occurrence of character c in s, 0 if there is none (str.rfind + 1).
RFind(s, c) ==
    LET hits == {i \in DOMAIN s : s[i] = c}
    IN IF hits = {} THEN 0 ELSE CHOOSE i \in hits : \A j \in hits : j <= i

\* PurePath.name: the final path component.
Name(p) == SubSeq(p, RFind(p, "/") + 1, Len(p))

\* PurePath.parent, as text relative to the music root ("" for the root itself).
Parent(p) == SubSeq(p, 1, RFind(p, "/") - 1)

\* parent / name
JoinPath(parent, name) ==
    IF parent = EmptyStr THEN name ELSE parent \o <<"/">> \o name

\* PurePath.suffix: from the last dot of the name, unless the name starts or ends with it.
Suffix(p) ==
    LET n == Name(p)
        i == RFind(n, ".")
    IN IF 1 < i /\ i < Len(n) THEN SubSeq(n, i, Len(n)) ELSE EmptyStr

\* SQLite "s LIKE pattern" without ESCAPE: % matches any run, _ any one character,
\* other characters match themselves ignoring ASCII case.
RECURSIVE Like(_, _)
Like(s, pat) ==
    IF pat = EmptyStr THEN s = EmptyStr
    ELSE IF Head(pat) = "%"
         THEN Like(s, Tail(pat)) \/ (s # EmptyStr /\ Like(Tail(s), pat))
         ELSE /\ s # EmptyStr
              /\ (Head(pat) = "_" \/ Lower(Head(pat)) = Lower(Head(s)))
              /\ Like(Tail(s), Tail(pat))

\* "LOWER(col) LIKE ?" as a WHERE term: NULL columns never satisfy it.
LowerLike(col, pat) == col # NULL /\ Like(LowerStr(col), pat)

-----------------------------------------------------------------------------
(* Names used on disk and typed by the user *)

NameA == <<"a", ".", "m", "p", "3">>
NameB == <<"b", ".", "M", "P", "3">>
NameN == <<"n", ".", "t", "x", "t">>

\* Entries that may exist under the music root.
DiskPaths == {NameA, NameB, NameN}

\* File names the user may type into the rename dialog.
NewNames == {NameA, NameB, NameN}

\* Values the user may type into the tag entry.
TagInputs == {EmptyStr, <<"r">>}

\* Largest id the model lets AUTOINCREMENT hand out.
MaxId == 3

-----------------------------------------------------------------------------
(* LibraryStore: table songs *)

\* Variant: the table admits a single row, every further insert conflicts.
PathTaken_AnyRow(t, p) == t # {}

\* UNIQUE(relative_path): would adding / moving a row to path p conflict in table t?
PathTaken(t, p) == \E r \in t : r.relative_path = p

RowById(t, id) == {r \in t : r.id = id}

\* Variant: INTEGER PRIMARY KEY without AUTOINCREMENT, which hands out max(rowid) + 1
\* and so reuses the ids of deleted rows.
MaxRowid(t) == IF t = {} THEN 0 ELSE CHOOSE m \in {r.id : r \in t} : \A r \in t : r.id <= m

InsertOrIgnore_ReuseIds(t, s, path, filename, tags, artist, album) ==
    IF PathTaken(t, path)
    THEN [songs |-> t, seq |-> s]
    ELSE [songs |-> t \cup {[id |-> MaxRowid(t) + 1, relative_path |-> path,
                             filename |-> filename, tags |-> tags, artist |-> artist,
                             album |-> album]},
          seq |-> s]

\* INSERT OR IGNORE INTO songs (...): AUTOINCREMENT takes max(sqlite_sequence, max rowid) + 1.
\* Returns the new table and sequence value.
InsertOrIgnore(t, s, path, filename, tags, artist, album) ==
    IF PathTaken(t, path)
    THEN [songs |-> t, seq |-> s]
    ELSE [songs |-> t \cup {[id |-> s + 1, relative_path |-> path, filename |-> filename,
                             tags |-> tags, artist |-> artist, album |-> album]},
          seq |-> s + 1]

\* update_library_list: the SELECT built from the filter fields.
Selected(r, f) ==
    LET path_filter   == LowerStr(f.path)
        search_term   == LowerStr(f.search)
        tag_filter    == LowerStr(f.tag)
        artist_filter == LowerStr(f.artist)
        album_filter  == LowerStr(f.album)
    IN IF path_filter # EmptyStr
       THEN LowerLike(r.relative_path, path_filter \o <<"%">>)
       ELSE /\ search_term # EmptyStr => LowerLike(r.filename, <<"%">> \o search_term \o <<"%">>)
            /\ tag_filter # EmptyStr => LowerLike(r.tags, <<"%">> \o tag_filter \o <<"%">>)
            /\ artist_filter # EmptyStr => LowerLike(r.artist, <<"%">> \o artist_filter \o <<"%">>)
            /\ album_filter # EmptyStr => LowerLike(r.album, <<"%">> \o album_filter \o <<"%">>)

update_library_list(t, f) == {r \in t : Selected(r, f)}

NoFilters == [search |-> EmptyStr, tag |-> EmptyStr, artist |-> EmptyStr,
              album |-> EmptyStr, path |-> EmptyStr]

-----------------------------------------------------------------------------
(* History record kept for stating properties: the operation performed last,  *)
(* its inputs, the table before it (scans only), and the rename (through the   *)
(* rename dialog, "op", or outside the application, "oob") that the next scan  *)
(* will meet, if that was the operation just before the scan.                  *)

NoArg == [id |-> 0]

NoMove == [how |-> "none"]

Did(name, arg, pre, moved) == [op |-> name, arg |-> arg, pre |-> pre, moved |-> moved]

-----------------------------------------------------------------------------
(* MetadataExtractor *)

audio_extensions == {<<".", "m", "p", "3">>, <<".", "w", "a", "v">>,
                     <<".", "f", "l", "a", "c">>, <<".", "m", "4", "a">>,
                     <<".", "o", "g", "g">>, <<".", "a", "a", "c">>,
                     <<".", "w", "m", "a">>}

\* What a file may hold when mutagen opens it.
FileContents == {"unreadable", "untagged", "tagged"}

TaggedMeta == [artist |-> <<"q">>, album |-> <<"k">>]
EmptyMeta  == [artist |-> EmptyStr, album |-> EmptyStr]

\* Variant: a file mutagen cannot read yields the fields of a readable one.
ExtractMetadata_Guess(kind, content) ==
    IF kind = "file" /\ content \in {"tagged", "unreadable"} THEN TaggedMeta ELSE EmptyMeta

\* The metadata block of scan_directory: artist and album start as "", any
\* exception (a directory, a corrupt file) leaves them so.
ExtractMetadata(kind, content) ==
    IF kind = "file" /\ content = "tagged" THEN TaggedMeta ELSE EmptyMeta

-----------------------------------------------------------------------------
(* ScanReconciler: scan_directory *)

\* for file_path in music_root_path.rglob('*'): if file_path.suffix.lower() in audio_extensions
AudioFiles(d) ==
    {p \in DOMAIN d : d[p] # "absent" /\ LowerStr(Suffix(p)) \in audio_extensions}

\* The orders in which rglob may yield a set of paths.
Orders(S) ==
    {o \in [1..Cardinality(S) -> S] : \A i, j \in 1..Cardinality(S) : o[i] = o[j] => i = j}

\* Variant: the pre-scan lookup map is never consulted.
ExistingTags_Forget(pre, p) == EmptyStr

\* existing_songs = {row[0]: row[1] ...}; existing_songs.get(relative_path, "")
ExistingTags(pre, p) ==
    IF PathTaken(pre, p) THEN (CHOOSE r \in pre : r.relative_path = p).tags ELSE EmptyStr

\* The relative path scan_directory stores: str(file_path.relative_to(music_root_path)).
ScanRelativePath(p) == JoinPath(Parent(p), Name(p))

\* The "Process files" loop over audio_files[i..], from table t, sequence s and counters.
RECURSIVE ScanLoop(_, _, _, _, _, _, _, _)
ScanLoop(order, i, content, pre, t, s, count, preserved) ==
    IF i > Len(order)
    THEN [songs |-> t, seq |-> s, count |-> count, preserved |-> preserved]
    ELSE LET file_path     == order[i]
             relative_path == ScanRelativePath(file_path)
             filename      == Name(file_path)
             tags          == ExistingTags(pre, relative_path)
             kept          == PathTaken(pre, relative_path) /\ tags # EmptyStr /\ tags # NULL
             meta          == ExtractMetadata(disk[file_path], content[file_path])
             ins           == InsertOrIgnore(t, s, relative_path, filename, tags,
                                             meta.artist, meta.album)
         IN ScanLoop(order, i + 1, content, pre, ins.songs, ins.seq, count + 1,
                     IF kept THEN preserved + 1 ELSE preserved)

EmptyReport == [kind |-> "empty", count |-> 0, preserved |-> 0]

\* scan_directory over files whose contents are among `contents`; the history
\* record lists the files whose content is among `noted`.
ScanAndNote(contents, noted) ==
    LET audio_files == AudioFiles(disk)
    IN /\ seq + Cardinality(audio_files) <= MaxId
       /\ IF audio_files = {}
          THEN \* DELETE FROM songs has run; the early return skips commit and refresh
               /\ songs' = {}
               /\ report' = EmptyReport
               /\ last' = Did("scan", [id |-> 0, failed |-> {}], songs, last.moved)
               /\ UNCHANGED <<disk, committed, seq, tree, filters, current_edit_id, edit_path>>
          ELSE \E order \in Orders(audio_files), content \in [audio_files -> contents] :
                 LET res == ScanLoop(order, 1, content, songs, {}, seq, 0, 0)
                 IN /\ songs' = res.songs
                    /\ committed' = res.songs
                    /\ seq' = res.seq
                    /\ tree' = update_library_list(res.songs, filters)
                    /\ report' = [kind |-> "done", count |-> res.count,
                                  preserved |-> res.preserved]
                    /\ last' = Did("scan", [id |-> 0,
                                            failed |-> {f \in audio_files :
                                                          content[f] \in noted}],
                                   songs, last.moved)
                    /\ UNCHANGED <<disk, filters, current_edit_id, edit_path>>
       /\ UNCHANGED playVars

ScanDirectory(contents) == ScanAndNote(contents, {})

scan_directory == ScanDirectory(FileContents)

\* scan_directory, the history noting the files mutagen could not read.
scan_noting_failures == ScanAndNote(FileContents, {"unreadable"})

\* scan_directory over files that carry no metadata.
scan_untagged == ScanDirectory({"untagged"})

-----------------------------------------------------------------------------
(* The file system changing outside the application *)

FsCreateFile ==
    \E p \in DiskPaths :
        /\ disk[p] = "absent"
        /\ disk' = [disk EXCEPT ![p] = "file"]
        /\ last' = Did("fs", NoArg, {}, NoMove)
        /\ UNCHANGED <<songs, committed, seq, tree, filters, current_edit_id, edit_path, report>>
        /\ UNCHANGED playVars

FsMkdir ==
    \E p \in DiskPaths :
        /\ disk[p] = "absent"
        /\ disk' = [disk EXCEPT ![p] = "dir"]
        /\ last' = Did("fs", NoArg, {}, NoMove)
        /\ UNCHANGED <<songs, committed, seq, tree, filters, current_edit_id, edit_path, report>>
        /\ UNCHANGED playVars

FsRemove ==
    \E p \in DiskPaths :
        /\ disk[p] # "absent"
        /\ disk' = [disk EXCEPT ![p] = "absent"]
        /\ last' = Did("fs", NoArg, {}, NoMove)
        /\ UNCHANGED <<songs, committed, seq, tree, filters, current_edit_id, edit_path, report>>
        /\ UNCHANGED playVars

FsRename ==
    \E p, q \in DiskPaths :
        /\ disk[p] # "absent"
        /\ disk[q] = "absent"
        /\ disk' = [disk EXCEPT ![p] = "absent", ![q] = disk[p]]
        /\ last' = Did("fs", NoArg, {}, [how |-> "oob", old |-> p, new |-> q, tags |-> ExistingTags(songs, p), had |-> PathTaken(songs, p)])
        /\ UNCHANGED <<songs, committed, seq, tree, filters, current_edit_id, edit_path, report>>
        /\ UNCHANGED playVars

-----------------------------------------------------------------------------
(* Per-track operations on the selected tree item *)

\* Variant: the existence check is skipped.
Exists_Always(d, p) == TRUE

\* Path(self.music_root) / relative_path exists
Exists(d, p) == p \in DOMAIN d /\ d[p] # "absent"

\* str.endswith
EndsWith(s, suffix) ==
    Len(s) >= Len(suffix) /\ SubSeq(s, Len(s) - Len(suffix) + 1, Len(s)) = suffix

\* Variant: relative_path declared without UNIQUE.
PathConflict_None(t, id, path) == FALSE

\* UPDATE songs SET relative_path = ?, filename = ? WHERE id = ?
\* raises IntegrityError when another row already holds the path.
PathConflict(t, id, path) == \E r \in t : r.id # id /\ r.relative_path = path

UpdatePath(t, id, path, filename) ==
    {IF r.id = id THEN [r EXCEPT !.relative_path = path, !.filename = filename] ELSE r : r \in t}

\* UPDATE songs SET tags = ? WHERE id = ?
UpdateTags(t, id, tags) ==
    {IF r.id = id THEN [r EXCEPT !.tags = tags] ELSE r : r \in t}

\* UPDATE songs SET artist = ?, album = ? WHERE id = ?
UpdateArtistAlbum(t, id, artist, album) ==
    {IF r.id = id THEN [r EXCEPT !.artist = artist, !.album = album] ELSE r : r \in t}

\* DELETE FROM songs WHERE id = ?
DeleteById(t, id) == {r \in t : r.id # id}

\* conn.commit() followed by self.update_library_list()
CommitAndRefresh(t) ==
    /\ songs' = t
    /\ committed' = t
    /\ tree' = update_library_list(t, filters)

\* rename_file with its dialog callback do_rename, on tree item `item`.
rename_file ==
    \E item \in tree, new_filename \in NewNames, confirm \in BOOLEAN :
        LET song_id == item.id
            current_filename == item.filename
            rows == RowById(songs, song_id)
            row == CHOOSE r \in rows : TRUE
            file_path == row.relative_path
            new_path == JoinPath(Parent(file_path), new_filename)
            proceed ==
                /\ rows # {}
                /\ Exists(disk, file_path)
                /\ new_filename # EmptyStr
                /\ new_filename # current_filename
                /\ (LowerStr(Suffix(new_path)) # LowerStr(Suffix(file_path)) => confirm)
                /\ ~Exists(disk, new_path)
        IN /\ proceed
           /\ new_path \in DOMAIN disk
           \* file_path.rename(new_path)
           /\ disk' = [disk EXCEPT ![file_path] = "absent", ![new_path] = disk[file_path]]
           /\ IF PathConflict(songs, song_id, new_path)
              THEN \* the UPDATE raises; nothing is committed, the tree is not refreshed
                   UNCHANGED <<songs, committed, tree>>
              ELSE CommitAndRefresh(UpdatePath(songs, song_id, new_path, new_filename))
           /\ last' = Did("rename", [id |-> song_id], {},
                          [how |-> "op", old |-> file_path, new |-> new_path,
                           tags |-> row.tags, had |-> TRUE])
           /\ UNCHANGED <<seq, filters, current_edit_id, edit_path, report>>
           /\ UNCHANGED playVars

\* edit_tags: a double click on a tree item loads its tags for editing.
edit_tags ==
    \E item \in tree :
        /\ current_edit_id # item.id
        /\ current_edit_id' = item.id
        /\ edit_path' = item.relative_path
        /\ last' = Did("edit_tags", [id |-> item.id], {}, NoMove)
        /\ UNCHANGED <<disk, songs, committed, seq, tree, filters, report>>
        /\ UNCHANGED playVars

\* update_tags: the Update Tags button, with `selection` the selected tree ids
\* and the tag entry holding one of `texts`; the history record keeps the
\* selection if `noting`.
UpdateTagsNoting(texts, noting) ==
    \E new_tags \in texts, selection \in {{}} \cup {{item.id} : item \in tree} :
        LET target == IF current_edit_id = 0
                      THEN CHOOSE id \in selection : TRUE
                      ELSE current_edit_id
        IN /\ current_edit_id = 0 => selection # {}
           /\ current_edit_id' = target
           /\ edit_path' = IF current_edit_id = 0
                           THEN (CHOOSE item \in tree : item.id = target).relative_path
                           ELSE edit_path
           /\ CommitAndRefresh(UpdateTags(songs, target, new_tags))
           /\ last' = Did("update_tags",
                          [id |-> target, tags |-> new_tags,
                           selected |-> IF noting THEN selection ELSE {}],
                          IF noting THEN songs ELSE {}, NoMove)
           /\ UNCHANGED <<disk, seq, filters, report>>
           /\ UNCHANGED playVars

UpdateTagsFrom(texts) == UpdateTagsNoting(texts, FALSE)

update_tags == UpdateTagsFrom(TagInputs)

\* update_tags, the history keeping the selection and the table before it.
update_tags_noting == UpdateTagsNoting(TagInputs, TRUE)

\* Tag texts as a user types them: a list without the blank after the comma, and
\* a tag made of digits.
TypedTagTexts == {<<"l", ",", "r">>, <<"7">>}

update_tags_typed == UpdateTagsFrom(TypedTagTexts)

\* delete_file on tree item `item`, the confirmation answered yes.
delete_file ==
    \E item \in tree :
        LET song_id == item.id
            rows == RowById(songs, song_id)
            row == CHOOSE r \in rows : TRUE
            file_path == row.relative_path
        IN /\ rows # {}
           \* unlink of a directory raises: the except branch leaves the table alone
           /\ ~(Exists(disk, file_path) /\ disk[file_path] = "dir")
           /\ disk' = IF Exists(disk, file_path)
                      THEN [disk EXCEPT ![file_path] = "absent"] ELSE disk
           /\ CommitAndRefresh(DeleteById(songs, song_id))
           /\ last' = Did("delete", [id |-> song_id], {}, NoMove)
           /\ UNCHANGED <<seq, filters, current_edit_id, edit_path, report>>
           /\ UNCHANGED playVars

\* Texts the user may leave in the artist and album fields of the ID3 dialog.
MetaInputs == {EmptyMeta, TaggedMeta}

\* new_values[...] if new_values[...] else None
OrNull(v) == IF v # EmptyStr THEN v ELSE NULL

\* edit_id3_metadata with its dialog callback save_metadata; the file parses as MP3.
save_metadata ==
    \E item \in tree, new_values \in MetaInputs :
        LET song_id == item.id
            rows == RowById(songs, song_id)
            row == CHOOSE r \in rows : TRUE
        IN /\ EndsWith(LowerStr(item.filename), <<".", "m", "p", "3">>)
           /\ rows # {}
           /\ Exists(disk, row.relative_path)
           /\ disk[row.relative_path] = "file"
           /\ CommitAndRefresh(UpdateArtistAlbum(songs, song_id, OrNull(new_values.artist),
                                                 OrNull(new_values.album)))
           /\ last' = Did("save_metadata", [id |-> song_id], {}, NoMove)
           /\ UNCHANGED <<disk, seq, filters, current_edit_id, edit_path, report>>
           /\ UNCHANGED playVars

\* select_root choosing the current root again: load_database closes the
\* connection (dropping the open transaction) and reopens the same file.
select_root ==
    /\ songs' = committed
    /\ tree' = update_library_list(committed, filters)
    /\ last' = Did("select_root", NoArg, {}, NoMove)
    /\ UNCHANGED <<disk, committed, seq, filters, current_edit_id, edit_path, report>>
    /\ UNCHANGED playVars

-----------------------------------------------------------------------------
(* Batch operations on the selected tree items.  Tags are kept as one text,  *)
(* a comma separated list.                                                   *)

\* str.strip() for blanks.
Strip(s) ==
    LET idx == {i \in DOMAIN s : s[i] # " "}
    IN IF idx = {} THEN EmptyStr
       ELSE SubSeq(s, CHOOSE i \in idx : \A j \in idx : i <= j,
                      CHOOSE i \in idx : \A j \in idx : j <= i)

\* str.split(c)
RECURSIVE Split(_, _)
Split(s, c) ==
    LET hits == {i \in DOMAIN s : s[i] = c}
        first == CHOOSE i \in hits : \A j \in hits : i <= j
    IN IF hits = {} THEN <<s>>
       ELSE <<SubSeq(s, 1, first - 1)>> \o Split(SubSeq(s, first + 1, Len(s)), c)

\* [tag.strip() for tag in text.split(',') if tag.strip()]
ParseTags(text) ==
    LET parts == Split(text, ",")
    IN SelectSeq([i \in DOMAIN parts |-> Strip(parts[i])], LAMBDA tag : tag # EmptyStr)

\* ', '.join(tags)
RECURSIVE JoinTags(_)
JoinTags(tags) ==
    IF tags = << >> THEN EmptyStr
    ELSE IF Len(tags) = 1 THEN tags[1]
    ELSE tags[1] \o <<",", " ">> \o JoinTags(Tail(tags))

\* tag in tags
Member(tag, tags) == \E i \in DOMAIN tags : tags[i] = tag

Digits == {"0", "7"}

\* ttk.Treeview.item() hands every value through int(): a text of digits comes
\* back as a number, any other text as it is.
IsIntText(text) == Strip(text) # EmptyStr /\ \A i \in DOMAIN Strip(text) : Strip(text)[i] \in Digits

IsZeroText(text) == IsIntText(text) /\ \A i \in DOMAIN Strip(text) : Strip(text)[i] = "0"

\* The tags column of a tree item: values=(..., tags or '').
ShownTags(item) == IF item.tags = NULL THEN EmptyStr ELSE item.tags

BulkOperations == {"add", "replace", "remove", "clear"}

\* The if / elif chain of apply_bulk_tags.
FinalTags(operation, current_tags, new_tags) ==
    CASE operation = "add" ->
             current_tags \o SelectSeq(new_tags, LAMBDA tag : ~Member(tag, current_tags))
      [] operation = "replace" -> new_tags
      [] operation = "remove" -> SelectSeq(current_tags, LAMBDA tag : ~Member(tag, new_tags))
      [] operation = "clear" -> << >>
      [] OTHER -> current_tags

\* One pass of the loop of apply_bulk_tags: item['values'][4].split raises when the
\* value came back as a non-zero number.
BulkItem(item, operation, new_tags) ==
    LET value == ShownTags(item)
        current_tags == IF IsIntText(value) \/ value = EmptyStr THEN << >>
                        ELSE ParseTags(value)
    IN IF IsIntText(value) /\ ~IsZeroText(value)
       THEN [ok |-> FALSE, tags |-> value]
       ELSE [ok |-> TRUE, tags |-> JoinTags(FinalTags(operation, current_tags, new_tags))]

\* Texts the user may type into the tags entry of the bulk dialog.
BulkTagTexts == {<<"7">>}

\* bulk_edit_tags_dialog with its Apply callback apply_bulk_tags, on the selected
\* tree items.
apply_bulk_tags ==
    \E selected_items \in SUBSET tree \ {{}}, operation \in BulkOperations,
       text \in BulkTagTexts :
        LET new_tags == ParseTags(text)
            ItemOf(id) == CHOOSE item \in selected_items : item.id = id
            ok_ids == {item.id : item \in {i \in selected_items :
                                              BulkItem(i, operation, new_tags).ok}}
            updated == Cardinality(ok_ids)
            errors == Cardinality(selected_items) - updated
            table == {IF r.id \in ok_ids
                      THEN [r EXCEPT !.tags = BulkItem(ItemOf(r.id), operation, new_tags).tags]
                      ELSE r : r \in songs}
        IN /\ IF updated > 0 THEN CommitAndRefresh(table)
              ELSE UNCHANGED <<songs, committed, tree>>
           /\ last' = Did("bulk_tags", [id |-> 0, operation |-> operation, new_tags |-> new_tags,
                                        selected |-> {item.id : item \in selected_items},
                                        items |-> Cardinality(selected_items),
                                        done |-> updated, errors |-> errors], songs, NoMove)
           /\ UNCHANGED <<disk, seq, filters, current_edit_id, edit_path, report>>
           /\ UNCHANGED playVars

\* delete_selected_files with more than one item selected, the confirmation
\* answered yes.  unlink raises on a directory.
delete_selected_files ==
    \E selected_items \in SUBSET tree :
        LET found == {item \in selected_items : RowById(songs, item.id) # {}}
            PathOf(item) == (CHOOSE r \in songs : r.id = item.id).relative_path
            raises == {item \in found : Exists(disk, PathOf(item)) /\ disk[PathOf(item)] = "dir"}
            gone == found \ raises
            deleted == Cardinality(gone)
            errors == Cardinality(selected_items) - deleted
        IN /\ Cardinality(selected_items) > 1
           /\ disk' = [p \in DOMAIN disk |->
                          IF \E item \in gone : PathOf(item) = p THEN "absent" ELSE disk[p]]
           /\ CommitAndRefresh({r \in songs : r.id \notin {item.id : item \in gone}})
           /\ last' = Did("bulk_delete", [id |-> 0, items |-> Cardinality(selected_items),
                                          done |-> deleted, errors |-> errors], songs, NoMove)
           /\ UNCHANGED <<seq, filters, current_edit_id, edit_path, report>>
           /\ UNCHANGED playVars

PlaylistTypes == {"folder", "m3u", "pls"}

\* create_playlist_dialog with its callback create_playlist, a name and a
\* destination outside the music root given.  The folder type copies the files
\* and reports the number copied; a failed copy is printed and not kept.
create_playlist ==
    \E selected_items \in SUBSET tree \ {{}}, playlist_type \in PlaylistTypes :
        LET found == {item \in selected_items : RowById(songs, item.id) # {}}
            PathOf(item) == (CHOOSE r \in songs : r.id = item.id).relative_path
            copies == {item \in found : Exists(disk, PathOf(item)) /\ disk[PathOf(item)] = "file"}
            reported == IF playlist_type = "folder" THEN Cardinality(copies)
                        ELSE Cardinality(found)
        IN /\ last' = Did("create_playlist",
                          [id |-> 0, type |-> playlist_type,
                           items |-> Cardinality(selected_items),
                           done |-> reported, errors |-> 0], songs, NoMove)
           /\ UNCHANGED libVars
           /\ UNCHANGED playVars

-----------------------------------------------------------------------------
(* PlaybackSession.  Times other than song_length are in 1/100 s, so that    *)
(* position = value / 100 * song_length is the integer value * song_length.  *)

\* self.current_volume = 0.7, in percent
DefaultVolume == 70

NoEngine == [loaded |-> EmptyStr, volume |-> DefaultVolume, start |-> 0, busy |-> FALSE]

NoTimers == [poll |-> 0, check |-> 0, guard |-> 0]

\* What the duration probe of toggle_playback may yield, in seconds (0: unknown or failed).
Durations == {0, 2}

\* Seek slider values the user may drag to.
SeekValues == {0, 50, 100}

\* Volume slider values the user may choose.
VolumeValues == {30}

\* Values pygame.mixer.music.get_pos() may return, in 1/100 s, while a file plays.
ElapsedValues == {0, 100}

\* Most callbacks of one kind the model lets be pending at once.
MaxPending == 2

\* The session fields and the engine, as one value, for the handlers that
\* run one after the other inside one callback.
Session == [currently_playing |-> currently_playing, is_playing |-> is_playing,
            song_length |-> song_length, song_start_time |-> song_start_time,
            is_seeking |-> is_seeking, engine |-> engine, timers |-> timers,
            shown |-> shown, slider_state |-> slider_state]

SetSession(s) ==
    /\ currently_playing' = s.currently_playing
    /\ is_playing' = s.is_playing
    /\ song_length' = s.song_length
    /\ song_start_time' = s.song_start_time
    /\ is_seeking' = s.is_seeking
    /\ engine' = s.engine
    /\ timers' = s.timers
    /\ shown' = s.shown
    /\ slider_state' = s.slider_state

\* Variant: stop_playback forgets to clear the seek guard flag.
stop_playback_KeepSeeking(s) ==
    [s EXCEPT !.engine = IF PYGAME_AVAILABLE /\ s.is_playing
                         THEN [s.engine EXCEPT !.busy = FALSE] ELSE s.engine,
              !.is_playing = FALSE,
              !.currently_playing = 0,
              !.song_length = 0,
              !.song_start_time = 0,
              !.slider_state = "disabled",
              !.shown = 0]

\* Variant: stop_playback resets the fields but never calls pygame.mixer.music.stop().
stop_playback_NoHalt(s) ==
    [s EXCEPT !.is_playing = FALSE,
              !.currently_playing = 0,
              !.song_length = 0,
              !.song_start_time = 0,
              !.is_seeking = FALSE,
              !.slider_state = "disabled",
              !.shown = 0]

\* Variant: stop_playback leaves clearing the seek flag to a guard callback, as on_seek does.
stop_playback_DeferGuard(s) ==
    [s EXCEPT !.engine = IF PYGAME_AVAILABLE /\ s.is_playing
                         THEN [s.engine EXCEPT !.busy = FALSE] ELSE s.engine,
              !.is_playing = FALSE,
              !.currently_playing = 0,
              !.song_length = 0,
              !.song_start_time = 0,
              !.timers.guard = @ + 1,
              !.slider_state = "disabled",
              !.shown = 0]

\* Variant: stop_playback leaves currently_playing as it is.
stop_playback_KeepTrack(s) ==
    [s EXCEPT !.engine = IF PYGAME_AVAILABLE /\ s.is_playing
                         THEN [s.engine EXCEPT !.busy = FALSE] ELSE s.engine,
              !.is_playing = FALSE,
              !.song_length = 0,
              !.song_start_time = 0,
              !.is_seeking = FALSE,
              !.slider_state = "disabled",
              !.shown = 0]

\* stop_playback
stop_playback(s) ==
    [s EXCEPT !.engine = IF PYGAME_AVAILABLE /\ s.is_playing
                         THEN [s.engine EXCEPT !.busy = FALSE] ELSE s.engine,
              !.is_playing = FALSE,
              !.currently_playing = 0,
              !.song_length = 0,
              !.song_start_time = 0,
              !.is_seeking = FALSE,
              !.slider_state = "disabled",
              !.shown = 0]

\* Variant: check_playback_status looks once and never schedules itself again.
check_playback_status_Once(s) ==
    IF ~s.is_playing THEN s
    ELSE IF ~s.engine.busy THEN stop_playback(s)
         ELSE s

\* The body of check_playback_status.
check_playback_status(s) ==
    IF ~s.is_playing THEN s
    ELSE IF ~s.engine.busy THEN stop_playback(s)
         ELSE \* self.root.after(100, self.check_playback_status)
              [s EXCEPT !.timers.check = @ + 1]

\* Variant: on_seek without its test of song_length.
OnSeek_NoLengthTest(s, position, engine_ok) ==
    LET eligible == PYGAME_AVAILABLE /\ s.currently_playing # 0
        rows == RowById(songs, s.currently_playing)
        row == CHOOSE r \in rows : TRUE
        file_path == row.relative_path
        loads == engine_ok /\ Exists(disk, file_path) /\ disk[file_path] = "file"
        reloaded == [s EXCEPT !.engine = [loaded |-> file_path, volume |-> current_volume,
                                          start |-> position, busy |-> TRUE],
                              !.song_start_time = position,
                              !.is_seeking = TRUE]
        resumed == IF ~s.is_playing
                   THEN check_playback_status([reloaded EXCEPT !.is_playing = TRUE])
                   ELSE reloaded
    IN IF ~eligible THEN s
       ELSE IF rows = {} THEN [s EXCEPT !.is_seeking = FALSE]
       ELSE [(IF loads THEN resumed ELSE [s EXCEPT !.is_seeking = TRUE])
                EXCEPT !.timers.guard = @ + 1]

\* The body of on_seek for the target `position` (value / 100 * song_length), the
\* engine accepting the reload or not.
OnSeek(s, position, engine_ok) ==
    LET eligible == PYGAME_AVAILABLE /\ s.song_length > 0 /\ s.currently_playing # 0
        rows == RowById(songs, s.currently_playing)
        row == CHOOSE r \in rows : TRUE
        file_path == row.relative_path
        loads == engine_ok /\ Exists(disk, file_path) /\ disk[file_path] = "file"
        reloaded == [s EXCEPT !.engine = [loaded |-> file_path, volume |-> current_volume,
                                          start |-> position, busy |-> TRUE],
                              !.song_start_time = position,
                              !.is_seeking = TRUE]
        resumed == IF ~s.is_playing
                   THEN check_playback_status([reloaded EXCEPT !.is_playing = TRUE])
                   ELSE reloaded
    IN IF ~eligible THEN s
       ELSE IF rows = {} THEN [s EXCEPT !.is_seeking = FALSE]
       ELSE \* finally: self.root.after(200, ...)
            [(IF loads THEN resumed ELSE [s EXCEPT !.is_seeking = TRUE])
                EXCEPT !.timers.guard = @ + 1]

\* self.seek_slider.set(...): a ttk.Scale ignores set while its state is disabled,
\* and otherwise stores the value and invokes its command, on_seek, with it.
\* `position` is the value as a position in the track.
seek_slider_set(s, position, engine_ok) ==
    IF s.slider_state = "disabled" THEN s ELSE OnSeek(s, position, engine_ok)

\* Variant: update_seek_bar without the clamp to song_length.
update_seek_bar_NoClamp(s, elapsed, seek_ok) ==
    IF ~s.is_playing \/ ~PYGAME_AVAILABLE THEN s
    ELSE LET current_pos == elapsed + s.song_start_time
             moved == IF ~s.is_seeking /\ elapsed >= 0 /\ s.song_length > 0
                      THEN [seek_slider_set(s, current_pos, seek_ok)
                               EXCEPT !.shown = current_pos]
                      ELSE s
         IN [moved EXCEPT !.timers.poll = @ + 1]

\* The body of update_seek_bar, with `elapsed` what get_pos() returns.
update_seek_bar(s, elapsed, seek_ok) ==
    IF ~s.is_playing \/ ~PYGAME_AVAILABLE THEN s
    ELSE LET current_pos == IF elapsed + s.song_start_time > s.song_length * 100
                            THEN s.song_length * 100
                            ELSE elapsed + s.song_start_time
             moved == IF ~s.is_seeking /\ elapsed >= 0 /\ s.song_length > 0
                      THEN [seek_slider_set(s, current_pos, seek_ok)
                               EXCEPT !.shown = current_pos]
                      ELSE s
         IN \* self.root.after(100, self.update_seek_bar)
            [moved EXCEPT !.timers.poll = @ + 1]

\* The try block of toggle_playback for file `path`, the engine accepting it.
StartPlaying(s, song_id, path, length, elapsed, seek_ok) ==
    LET loaded == [s EXCEPT !.engine = [loaded |-> path, volume |-> current_volume,
                                        start |-> 0, busy |-> TRUE],
                            !.song_length = length,
                            !.song_start_time = 0,
                            !.is_playing = TRUE,
                            !.currently_playing = song_id]
        enabled == [loaded EXCEPT !.slider_state = "normal"]
        bar == IF length > 0
               THEN update_seek_bar([seek_slider_set(enabled, 0, seek_ok) EXCEPT !.shown = 0],
                                    elapsed, seek_ok)
               ELSE [loaded EXCEPT !.slider_state = "disabled", !.shown = -1]
    IN check_playback_status(bar)

\* toggle_playback: the Play button, with `selection` the selected tree ids.
toggle_playback ==
    \E selection \in {{}} \cup {{item.id} : item \in tree},
       length \in Durations, elapsed \in ElapsedValues, engine_ok, seek_ok \in BOOLEAN :
        LET s == Session
            song_id == CHOOSE id \in selection : TRUE
            was == IF is_playing THEN currently_playing ELSE 0
            rows == RowById(songs, song_id)
            row == CHOOSE r \in rows : TRUE
            stopped == IF is_playing THEN stop_playback(s) ELSE s
            result ==
                IF ~PYGAME_AVAILABLE THEN [s |-> s, outcome |-> "unavailable"]
                ELSE IF selection = {}
                THEN IF is_playing THEN [s |-> stop_playback(s), outcome |-> "stopped"]
                     ELSE [s |-> s, outcome |-> "no_selection"]
                ELSE IF is_playing /\ currently_playing = song_id
                THEN [s |-> stop_playback(s), outcome |-> "stopped"]
                ELSE IF rows = {} \/ ~Exists(disk, row.relative_path)
                THEN [s |-> stopped, outcome |-> "not_found"]
                ELSE IF ~engine_ok \/ disk[row.relative_path] # "file"
                THEN \* pygame raises: the except branch calls stop_playback
                     [s |-> stop_playback(stopped), outcome |-> "failed"]
                ELSE [s |-> StartPlaying(stopped, song_id, row.relative_path, length,
                                         elapsed, seek_ok),
                      outcome |-> "played"]
        IN /\ timers.poll < MaxPending /\ timers.check < MaxPending
           /\ timers.guard < MaxPending
           /\ SetSession(result.s)
           /\ last' = Did("play", [id |-> IF selection = {} THEN 0 ELSE song_id, was |-> was,
                                   found |-> selection # {} /\ rows # {}
                                             /\ Exists(disk, row.relative_path),
                                   engine_ok |-> engine_ok, length |-> length,
                                   loaded |-> engine.loaded,
                                   outcome |-> result.outcome], songs, NoMove)
           /\ sought' = IF result.outcome \in {"unavailable", "no_selection"}
                        THEN sought ELSE -1
           /\ UNCHANGED <<current_volume, PYGAME_AVAILABLE>>
           /\ UNCHANGED libVars

\* on_seek: the user moves the seek slider to `value`; the widget runs its command.
on_seek ==
    \E value \in SeekValues, engine_ok \in BOOLEAN :
        LET position == value * song_length
            eligible == PYGAME_AVAILABLE /\ song_length > 0 /\ currently_playing # 0
        IN /\ slider_state = "normal"
           /\ timers.guard < MaxPending /\ timers.check < MaxPending
           /\ SetSession(seek_slider_set(Session, position, engine_ok))
           /\ last' = Did("seek", [id |-> currently_playing, position |-> position,
                                   eligible |-> eligible, engine_ok |-> engine_ok,
                                   length |-> song_length, loaded |-> engine.loaded,
                                   volume |-> current_volume], {}, NoMove)
           /\ sought' = IF eligible /\ engine_ok THEN position ELSE sought
           /\ UNCHANGED <<current_volume, PYGAME_AVAILABLE>>
           /\ UNCHANGED libVars

\* Variant: on_volume_change without its test of PYGAME_AVAILABLE.
on_volume_change_Always ==
    \E value \in VolumeValues \cup {DefaultVolume} :
        /\ value # current_volume
        /\ current_volume' = value
        /\ engine' = [engine EXCEPT !.volume = value]
        /\ last' = Did("volume", NoArg, {}, NoMove)
        /\ UNCHANGED <<currently_playing, is_playing, song_length, is_seeking,
                       song_start_time, timers, shown, slider_state, PYGAME_AVAILABLE,
                   sought>>
        /\ UNCHANGED libVars

\* on_volume_change: the volume slider moved to `value`.
on_volume_change ==
    \E value \in VolumeValues \cup {DefaultVolume} :
        /\ value # current_volume
        /\ current_volume' = IF PYGAME_AVAILABLE THEN value ELSE current_volume
        /\ engine' = IF PYGAME_AVAILABLE THEN [engine EXCEPT !.volume = value] ELSE engine
        /\ last' = Did("volume", NoArg, {}, NoMove)
        /\ UNCHANGED <<currently_playing, is_playing, song_length, is_seeking,
                       song_start_time, timers, shown, slider_state, PYGAME_AVAILABLE,
                   sought>>
        /\ UNCHANGED libVars

\* Whether update_seek_bar, run on session s, writes a position to the slider and label.
Displays(s, elapsed) ==
    s.is_playing /\ PYGAME_AVAILABLE /\ ~s.is_seeking /\ elapsed >= 0 /\ s.song_length > 0

\* A pending root.after(100, self.update_seek_bar) fires.
PollTick ==
    \E elapsed \in ElapsedValues, seek_ok \in BOOLEAN :
        /\ timers.poll > 0
        /\ timers.guard < MaxPending
        /\ SetSession(update_seek_bar([Session EXCEPT !.timers.poll = @ - 1], elapsed,
                                      seek_ok))
        /\ last' = Did("poll", [id |-> 0, elapsed |-> elapsed, displayed |-> Displays(Session, elapsed),
                                start |-> song_start_time, sought |-> sought], {}, NoMove)
        /\ sought' = IF Displays(Session, elapsed) THEN -1 ELSE sought
        /\ UNCHANGED <<current_volume, PYGAME_AVAILABLE>>
        /\ UNCHANGED libVars

\* A pending root.after(100, self.check_playback_status) fires.
CheckTick ==
    /\ timers.check > 0
    /\ SetSession(check_playback_status([Session EXCEPT !.timers.check = @ - 1]))
    /\ last' = Did("check", [id |-> 0, stopped |-> is_playing /\ ~engine.busy], {}, NoMove)
    /\ sought' = IF is_playing /\ ~engine.busy THEN -1 ELSE sought
    /\ UNCHANGED <<current_volume, PYGAME_AVAILABLE>>
    /\ UNCHANGED libVars

\* A pending root.after(200, lambda: setattr(self, 'is_seeking', False)) fires.
GuardTick ==
    /\ timers.guard > 0
    /\ timers' = [timers EXCEPT !.guard = @ - 1]
    /\ is_seeking' = FALSE
    /\ last' = Did("guard", NoArg, {}, NoMove)
    /\ UNCHANGED <<currently_playing, is_playing, current_volume, song_length,
                   song_start_time, engine, shown, slider_state, PYGAME_AVAILABLE,
                   sought>>
    /\ UNCHANGED libVars

\* The engine reaches the end of the file it plays.
EngineFinish ==
    /\ engine.busy
    /\ engine' = [engine EXCEPT !.busy = FALSE]
    /\ last' = Did("finish", NoArg, {}, NoMove)
    /\ UNCHANGED <<currently_playing, is_playing, current_volume, song_length,
                   is_seeking, song_start_time, timers, shown, slider_state, PYGAME_AVAILABLE,
                   sought>>
    /\ UNCHANGED libVars

-----------------------------------------------------------------------------
(* QueryFilter: the filter entries; every write to one of them runs          *)
(* update_library_list (StringVar.trace('w', ...)).                          *)

FilterFields == {"search", "tag", "artist", "album", "path"}

\* Texts the user may type into a filter entry.
FilterTexts == {EmptyStr, <<"a">>, <<"S">>, <<"_">>}

set_filter ==
    \E field \in FilterFields, text \in FilterTexts :
        /\ filters[field] # text
        /\ filters' = [filters EXCEPT ![field] = text]
        /\ tree' = update_library_list(songs, filters')
        /\ last' = Did("filter", NoArg, {}, NoMove)
        /\ UNCHANGED <<disk, songs, committed, seq, current_edit_id, edit_path, report>>
        /\ UNCHANGED playVars

-----------------------------------------------------------------------------
(* Initial state: a new database in the chosen root, nothing playing *)

Init ==
    /\ disk \in [DiskPaths -> {"absent", "file"}]
    /\ songs = {}
    /\ committed = {}
    /\ seq = 0
    /\ tree = {}
    /\ filters = NoFilters
    /\ current_edit_id = 0
    /\ edit_path = EmptyStr
    /\ report = [kind |-> "none", count |-> 0, preserved |-> 0]
    /\ currently_playing = 0
    /\ is_playing = FALSE
    /\ current_volume = DefaultVolume
    /\ song_length = 0
    /\ is_seeking = FALSE
    /\ song_start_time = 0
    /\ engine = NoEngine
    /\ timers = NoTimers
    /\ shown = 0
    /\ sought = -1
    /\ slider_state = "disabled"
    /\ PYGAME_AVAILABLE = TRUE
    /\ last = Did("init", NoArg, {}, NoMove)

\* The library view over a stored table, as left by earlier scans and edits of a
\* root holding a.mp3 and S/b.MP3.
PathSB == <<"S", "/">> \o NameB

\* Tags, artist and album a stored row may carry.
RowProfiles == {[tags |-> EmptyStr, artist |-> EmptyStr, album |-> EmptyStr],
                [tags |-> <<"a", "s">>, artist |-> <<"A">>, album |-> <<"s">>],
                [tags |-> <<"s">>, artist |-> NULL, album |-> NULL]}

StoredRow(id, path, profile) ==
    [id |-> id, relative_path |-> path, filename |-> Name(path), tags |-> profile.tags,
     artist |-> profile.artist, album |-> profile.album]

InitQuery ==
    /\ \E p1, p2 \in RowProfiles :
           songs = {StoredRow(1, NameA, p1), StoredRow(2, PathSB, p2)}
    /\ committed = songs
    /\ tree = songs
    /\ seq = Cardinality(songs)
    /\ disk = [p \in {NameA, PathSB} |-> "file"]
    /\ filters = NoFilters
    /\ current_edit_id = 0
    /\ edit_path = EmptyStr
    /\ report = [kind |-> "none", count |-> 0, preserved |-> 0]
    /\ currently_playing = 0
    /\ is_playing = FALSE
    /\ current_volume = DefaultVolume
    /\ song_length = 0
    /\ is_seeking = FALSE
    /\ song_start_time = 0
    /\ engine = NoEngine
    /\ timers = NoTimers
    /\ shown = 0
    /\ sought = -1
    /\ slider_state = "disabled"
    /\ PYGAME_AVAILABLE = TRUE
    /\ last = Did("init", NoArg, {}, NoMove)

NextQuery == set_filter

SpecQuery == InitQuery /\ [][NextQuery]_vars

\* Playback over a library of two plain files, rescanned while a track plays.
InitPlay ==
    /\ Init
    /\ disk[NameN] = "absent"

NextPlay ==
    \/ toggle_playback
    \/ on_seek
    \/ on_volume_change
    \/ PollTick
    \/ CheckTick
    \/ GuardTick
    \/ EngineFinish
    \/ scan_untagged

SpecPlay == InitPlay /\ [][NextPlay]_vars

\* The session specifications below keep at most MaxChain callbacks of a kind
\* pending at once and hand out at most MaxSeq ids.
MaxChain == 1

MaxSeq == 2

Within(n) == timers.poll <= n /\ timers.check <= n /\ timers.guard <= n

\* Start-up with or without a working pygame, over a library of plain files.
InitSession ==
    /\ disk \in [DiskPaths -> {"absent", "file"}]
    /\ disk[NameN] = "absent"
    /\ songs = {}
    /\ committed = {}
    /\ seq = 0
    /\ tree = {}
    /\ filters = NoFilters
    /\ current_edit_id = 0
    /\ edit_path = EmptyStr
    /\ report = [kind |-> "none", count |-> 0, preserved |-> 0]
    /\ currently_playing = 0
    /\ is_playing = FALSE
    /\ current_volume = DefaultVolume
    /\ song_length = 0
    /\ is_seeking = FALSE
    /\ song_start_time = 0
    /\ engine = NoEngine
    /\ timers = NoTimers
    /\ shown = 0
    /\ sought = -1
    /\ slider_state = "disabled"
    /\ PYGAME_AVAILABLE \in BOOLEAN
    /\ last = Did("init", NoArg, {}, NoMove)

\* Playing, stopping and the volume slider, with the timer callbacks.
NextStop ==
    \/ scan_untagged /\ (seq <= MaxSeq)'
    \/ toggle_playback /\ Within(MaxChain)'
    \/ on_volume_change
    \/ PollTick /\ Within(MaxChain)'
    \/ CheckTick
    \/ GuardTick
    \/ EngineFinish

SpecStop == InitSession /\ [][NextStop]_vars

\* The same under the Tk event loop, which runs every callback handed to root.after.
SpecStopFair ==
    SpecStop /\ WF_vars(PollTick /\ Within(MaxChain)') /\ WF_vars(CheckTick)
             /\ WF_vars(GuardTick)

\* Playing while files of the library are removed behind the application's back.
NextNotFound ==
    \/ scan_untagged /\ (seq <= MaxSeq)'
    \/ FsRemove
    \/ toggle_playback /\ Within(MaxChain)'
    \/ PollTick /\ Within(MaxChain)'
    \/ CheckTick
    \/ GuardTick
    \/ EngineFinish

SpecNotFound == InitPlay /\ [][NextNotFound]_vars

\* The same, with the tag entry in use.
NextPlayEdit ==
    \/ toggle_playback
    \/ on_seek
    \/ PollTick
    \/ CheckTick
    \/ GuardTick
    \/ EngineFinish
    \/ scan_untagged
    \/ edit_tags
    \/ update_tags

SpecPlayEdit == InitPlay /\ [][NextPlayEdit]_vars

\* The scan against a changing directory tree, with tag edits in between.
NextScan ==
    \/ scan_directory
    \/ FsCreateFile
    \/ FsMkdir
    \/ FsRemove
    \/ FsRename
    \/ edit_tags
    \/ update_tags
    \/ select_root

SpecScan == Init /\ [][NextScan]_vars

\* The batch operations, over tracks tagged by hand and a tree in which files
\* vanish and directories carry audio names.
InitBulk == Init /\ disk[NameN] = "absent"

NextBulk ==
    \/ scan_untagged /\ (seq <= MaxSeq)'
    \/ FsMkdir /\ (disk[NameN] = "absent")'
    \/ FsRemove
    \/ edit_tags
    \/ update_tags_typed
    \/ apply_bulk_tags
    \/ delete_selected_files
    \/ create_playlist

SpecBulk == InitBulk /\ [][NextBulk]_vars

\* Scans over files of every content, between tag edits and changes of the tree.
NextExtract ==
    \/ scan_noting_failures
    \/ FsCreateFile /\ (disk[NameN] = "absent")'
    \/ FsMkdir /\ (disk[NameN] = "absent")'
    \/ FsRemove
    \/ edit_tags
    \/ update_tags

SpecExtract == InitBulk /\ [][NextExtract]_vars

\* Loading a track into the tag entry and saving the entry, between scans.
NextTagEdit ==
    \/ scan_untagged /\ (seq <= MaxSeq)'
    \/ edit_tags
    \/ update_tags_noting

SpecTagEdit == InitBulk /\ [][NextTagEdit]_vars

\* Every operation that writes rows of the song table, over a tree of plain files.
NextLib ==
    \/ scan_directory
    \/ FsCreateFile
    \/ FsRemove
    \/ FsRename
    \/ rename_file
    \/ update_tags
    \/ delete_file
    \/ save_metadata

SpecLib == Init /\ [][NextLib]_vars

-----------------------------------------------------------------------------
(* Properties of the scan *)

ScanFound == last.op = "scan" /\ report.kind = "done"
ScanFoundNothing == last.op = "scan" /\ report.kind = "empty"

\* C1: after a scan that found audio files, every row carries the tags the table
\* held for the same relative_path just before the scan, and "" if it held none.
C1_TagsFollowPath ==
    ScanFound =>
        \A r \in songs :
            LET before == {q \in last.pre : q.relative_path = r.relative_path}
            IN IF before = {} THEN r.tags = EmptyStr
               ELSE \A q \in before : r.tags = q.tags

\* A rescan that met a tagged path again and a path it had not seen before.
C1_Witness ==
    /\ ScanFound
    /\ \E r \in songs : r.tags # EmptyStr /\ PathTaken(last.pre, r.relative_path)
    /\ \E r \in songs : ~PathTaken(last.pre, r.relative_path)

\* C2: after a scan that found audio files, the table holds exactly one row per
\* regular file under the root with an audio extension, and no other row.
C2_RowsAreAudioFiles ==
    ScanFound =>
        /\ \A p \in DOMAIN disk :
               (disk[p] = "file" /\ LowerStr(Suffix(p)) \in audio_extensions)
                   => Cardinality({r \in songs : r.relative_path = p}) = 1
        /\ \A r \in songs :
               /\ r.relative_path \in DOMAIN disk
               /\ disk[r.relative_path] = "file"
               /\ LowerStr(Suffix(r.relative_path)) \in audio_extensions

\* C4: a scan that finds no audio file leaves the table as it was.
C4_EmptyScanIsNoOp ==
    ScanFoundNothing => (songs = last.pre /\ report = EmptyReport)

\* C5: a path present before and after a scan has a different id afterwards.
C5_IdsChange ==
    ScanFound =>
        \A r \in songs : \A q \in last.pre :
            r.relative_path = q.relative_path => r.id # q.id

\* A rescan that met again a path the table already held.
C5_Witness ==
    /\ ScanFound
    /\ \E r \in songs : PathTaken(last.pre, r.relative_path)

\* Whether the scan just finished could not read the metadata of enumerated file f.
ExtractionFailed(f) == f \in last.arg.failed \/ disk[f] = "dir"

\* C22: after a scan that found audio files every enumerated file has its row,
\* also when the metadata of some file could not be read: that file's row carries
\* the tags held for its path before the scan and an empty artist and album.
C22_FailureDoesNotAbort ==
    ScanFound =>
        \A f \in AudioFiles(disk) :
            LET rows == {r \in songs : r.relative_path = f}
                before == {q \in last.pre : q.relative_path = f}
            IN /\ Cardinality(rows) = 1
               /\ ExtractionFailed(f) =>
                      \A r \in rows :
                          /\ r.artist = EmptyStr /\ r.album = EmptyStr
                          /\ r.filename = Name(f)
                          /\ IF before = {} THEN r.tags = EmptyStr
                             ELSE \A q \in before : r.tags = q.tags

\* A scan met an unreadable file that had tags, and read the metadata of another file.
C22_Witness ==
    /\ ScanFound
    /\ \E f \in last.arg.failed, r \in songs :
           r.relative_path = f /\ r.tags # EmptyStr
    /\ \E r \in songs : r.artist # EmptyStr

-----------------------------------------------------------------------------
(* Properties of the table under all operations *)

\* C3: a tagged track renamed through the rename dialog keeps its tags at the
\* new path after the next scan; renamed outside the application, the row at the
\* new path has empty tags after the next scan.
C3_RenameThenRescan ==
    (ScanFound /\ last.moved.how # "none" /\ last.moved.had /\ last.moved.tags # EmptyStr) =>
        \A r \in songs :
            r.relative_path = last.moved.new =>
                r.tags = (IF last.moved.how = "op" THEN last.moved.tags ELSE EmptyStr)

\* C7: no two rows share a relative_path.
C7_PathsUnique ==
    \A r1, r2 \in songs : r1.relative_path = r2.relative_path => r1 = r2

\* The rename dialog asked for a path another (stale) row still holds.
C7_Witness ==
    /\ last.op = "rename"
    /\ \E r \in songs : r.id # last.arg.id /\ r.relative_path = last.moved.new
    /\ \E r \in songs : r.id = last.arg.id

\* C30: when the rename dialog's rename has run, either the file has its new
\* name on disk and the row holds the new relative_path and filename, or the
\* file has its old name and the row holds the old relative_path.
C30_RenameAllOrNothing ==
    last.op = "rename" =>
        \A r \in RowById(songs, last.arg.id) :
            \/ /\ Exists(disk, last.moved.new) /\ ~Exists(disk, last.moved.old)
               /\ r.relative_path = last.moved.new
               /\ r.filename = Name(last.moved.new)
            \/ /\ Exists(disk, last.moved.old) /\ ~Exists(disk, last.moved.new)
               /\ r.relative_path = last.moved.old
               /\ r.filename = Name(last.moved.old)

-----------------------------------------------------------------------------
(* Properties of the playback session *)

\* play(t) was invoked on a selected track, with the engine available.
Played == last.op = "play" /\ last.arg.id # 0 /\ PYGAME_AVAILABLE

\* C6: nothing held across a scan names a track by id: a seek on a playing
\* track whose file is still on disk reloads the engine at the target offset, and
\* the tag update reaches the row of the track picked for editing.
C6_NothingKeyedById ==
    /\ (/\ last.op = "seek" /\ last.arg.eligible /\ last.arg.engine_ok
        /\ Exists(disk, engine.loaded) /\ disk[engine.loaded] = "file")
           => (/\ song_start_time = last.arg.position
               /\ engine.start = last.arg.position
               /\ engine.busy)
    /\ (last.op = "update_tags" /\ edit_path \in AudioFiles(disk))
           => \A r \in songs : r.relative_path = edit_path => r.tags = last.arg.tags

\* C9: a successful play(t), t not already playing, leaves the session Playing t
\* from offset 0 with the probed length, the seek flag clear, and the engine
\* playing t's file at the current volume.
C9_PlayStartsTrack ==
    (Played /\ last.arg.was # last.arg.id /\ last.arg.found /\ last.arg.engine_ok) =>
        /\ is_playing
        /\ currently_playing = last.arg.id
        /\ song_start_time = 0
        /\ ~is_seeking
        /\ song_length = last.arg.length
        /\ \E r \in songs : r.id = last.arg.id /\ engine.loaded = r.relative_path
        /\ engine.start = 0
        /\ engine.volume = current_volume
        /\ engine.busy

\* play(t) succeeded while another track was playing and being sought.
C9_Witness ==
    /\ Played /\ last.arg.found /\ last.arg.engine_ok
    /\ last.arg.was # 0 /\ last.arg.was # last.arg.id
    /\ timers.guard > 0
    /\ current_volume # DefaultVolume

\* C10: play(t) while t is playing stops it: the session is Idle, the engine halted.
C10_PlaySameTrackStops ==
    (Played /\ last.arg.was = last.arg.id) =>
        /\ ~is_playing
        /\ currently_playing = 0
        /\ song_length = 0
        /\ song_start_time = 0
        /\ ~is_seeking
        /\ ~engine.busy

\* play(t) was invoked on the playing track.
C10_Witness ==
    Played /\ last.arg.was = last.arg.id

\* stop_playback was the last thing the operation performed last did.
StopRan ==
    \/ last.op = "play" /\ last.arg.outcome \in {"stopped", "failed"}
    \/ last.op = "play" /\ last.arg.outcome = "not_found" /\ last.arg.was # 0
    \/ last.op = "check" /\ last.arg.stopped

\* The track fields of the session at their defaults of __init__.
SessionReset ==
    /\ currently_playing = 0
    /\ ~is_playing
    /\ song_length = 0
    /\ song_start_time = 0
    /\ ~is_seeking

C12_StopIdempotent ==
    LET once == stop_playback(Session)
    IN /\ stop_playback(once) = once
       /\ (~is_playing /\ currently_playing = 0) => once = Session

\* toggle_playback stopped the playing track and then, the load of the selected
\* one failing, called stop_playback again on the Idle session.
C12_Witness ==
    /\ last.op = "play" /\ last.arg.outcome = "failed" /\ last.arg.was # 0
    /\ SessionReset

\* play(t) was invoked on a track, not the one playing, that has no row in the
\* table or whose file is not on disk.
NotFoundCase ==
    /\ Played /\ last.arg.was # last.arg.id
    /\ ~\E r \in songs : /\ r.id = last.arg.id
                         /\ r.relative_path \in DOMAIN disk
                         /\ disk[r.relative_path] # "absent"

\* C13: play(t) for a track absent from the store or missing on disk reports
\* NotFound, loads nothing into the engine, leaves the table as it was, and the
\* session is Idle when it returns.
C13_PlayMissingIsNotFound ==
    NotFoundCase =>
        /\ last.arg.outcome = "not_found"
        /\ engine.loaded = last.arg.loaded
        /\ ~engine.busy
        /\ songs = last.pre
        /\ SessionReset

\* play(t) on a track whose file has been removed, while another track was playing.
C13_Witness ==
    /\ NotFoundCase
    /\ last.arg.was # 0
    /\ \E r \in songs : r.id = last.arg.id

\* The engine raised while loading or starting a file: in toggle_playback, or in
\* the reload of a seek by the user on a track the table still holds.
EngineRaised ==
    \/ last.op = "play" /\ last.arg.outcome = "failed"
    \/ /\ last.op = "seek" /\ last.arg.eligible /\ ~last.arg.engine_ok
       /\ \E r \in songs : r.id = last.arg.id

\* C14: whenever the engine raises while loading or starting a file, in play() or
\* in the reload of seek(), the session is Idle with all fields at their defaults
\* when the operation returns.
C14_EngineErrorLeavesIdle ==
    EngineRaised => (SessionReset /\ ~engine.busy)

\* seek(P) was invoked by the user on a session with a current track of known
\* length, the file still on disk and the engine accepting it.
SeekCase ==
    /\ last.op = "seek" /\ last.arg.eligible /\ last.arg.engine_ok
    /\ Exists(disk, last.arg.loaded) /\ disk[last.arg.loaded] = "file"

\* C15: seek(P) on a session with a current track and song_length L > 0 reloads
\* the same file, starts the engine from P/100 * L, sets song_start_time to that
\* offset, leaves currently_playing, song_length and the volume as they were and
\* the session Playing.
C15_SeekBookkeeping ==
    SeekCase =>
        /\ engine.loaded = last.arg.loaded
        /\ engine.busy
        /\ engine.start = last.arg.position
        /\ song_start_time = last.arg.position
        /\ currently_playing = last.arg.id
        /\ song_length = last.arg.length
        /\ current_volume = last.arg.volume
        /\ engine.volume = current_volume
        /\ is_playing

\* Smaller of two numbers.
Min(a, b) == IF a < b THEN a ELSE b

\* C16: the first position shown after a seek(P) of the user on a playing track of
\* length L is the engine's elapsed time since the reload plus L * P / 100,
\* clamped to L.
C16_FirstShownIsTarget ==
    (last.op = "poll" /\ last.arg.displayed /\ last.arg.sought # -1) =>
        shown = Min(last.arg.elapsed + last.arg.sought, song_length * 100)

\* C17: while is_seeking is true neither the position update nor the
\* end-of-track check changes the session.
C17_NoTickActsWhileSeeking ==
    [][(is_seeking /\ last'.op \in {"poll", "check"}) =>
          UNCHANGED <<currently_playing, is_playing, song_length, song_start_time,
                      is_seeking, engine, shown>>]_vars

\* C18: once a track is playing and the engine is no longer busy, the session
\* reaches Idle with its fields reset, unless the engine was started again.
C18_FinishedTrackGoesIdle ==
    (is_playing /\ ~engine.busy) ~> ((SessionReset /\ ~engine.busy) \/ engine.busy)

\* The end-of-track check found the engine finished and stopped the session.
C18_Witness ==
    /\ last.op = "check" /\ last.arg.stopped
    /\ SessionReset /\ ~engine.busy
    /\ timers.poll > 0

\* C21: without the audio engine the session is Idle in every state: no track
\* is current, nothing plays, the volume is the initial one, and a seek or a
\* stop called in that state changes nothing.
C21_UnavailableStaysIdle ==
    ~PYGAME_AVAILABLE =>
        /\ currently_playing = 0
        /\ ~is_playing
        /\ current_volume = DefaultVolume
        /\ engine = NoEngine
        /\ timers = NoTimers
        /\ stop_playback(Session) = Session
        /\ \A value \in SeekValues, engine_ok \in BOOLEAN :
               OnSeek(Session, value * song_length, engine_ok) = Session

\* The volume slider was moved without the engine, the library holding tracks.
C21_Witness ==
    /\ ~PYGAME_AVAILABLE
    /\ last.op = "volume"
    /\ tree # {}

\* C23: in a state without a current track or with song_length = 0, on_seek
\* changes no session field, does not touch the engine and schedules no callback.
C23_IneligibleSeekIsNoOp ==
    (currently_playing = 0 \/ song_length = 0) =>
        \A value \in SeekValues, engine_ok \in BOOLEAN :
            OnSeek(Session, value * song_length, engine_ok) = Session

\* A track of unknown duration plays: it is current, its row exists, song_length = 0.
C23_Witness ==
    /\ PYGAME_AVAILABLE
    /\ is_playing
    /\ song_length = 0
    /\ RowById(songs, currently_playing) # {}

\* C24: a poll tick either leaves the displayed position alone or sets it to
\* min(elapsed + song_start_time, song_length), a value within [0, song_length];
\* with song_length = 0 it leaves it alone.
C24_PollShowsClampedPosition ==
    [][last'.op = "poll" =>
          \/ shown' = shown
          \/ /\ song_length > 0
             /\ shown' = Min(last'.arg.elapsed + song_start_time, song_length * 100)
             /\ shown' >= 0 /\ shown' <= song_length * 100]_vars

\* A poll tick displayed the end of the track because elapsed + start exceeded it.
C24_Witness ==
    /\ last.op = "poll"
    /\ last.arg.displayed
    /\ last.arg.elapsed + last.arg.start > song_length * 100
    /\ shown = song_length * 100

\* C27: at most one update_seek_bar callback and at most one
\* check_playback_status callback are pending in any state.
C27_OneChainEach == timers.poll <= 1 /\ timers.check <= 1

\* C28: while a track plays and is_seeking is set, a guard callback that fires
\* while a later one is still pending (callbacks of equal delay fire in the order
\* they were scheduled, so the pending one is the latest seek's) leaves
\* is_seeking set.
C28_GuardOfLatestSeekHolds ==
    [][(last'.op = "guard" /\ is_playing /\ is_seeking /\ timers'.guard > 0)
          => is_seeking']_vars

\* C29: in every state is_playing holds exactly if a track is current, and
\* song_length > 0, song_start_time > 0 or is_seeking only with a current track.
C29_PlayingIffCurrent ==
    /\ is_playing <=> currently_playing # 0
    /\ (song_length > 0 \/ song_start_time > 0 \/ is_seeking) => currently_playing # 0

\* A session that played and sought has been stopped.
C29_Witness ==
    /\ last.op = "play" /\ last.arg.outcome = "stopped"
    /\ last.arg.was # 0
    /\ ~is_playing
    /\ timers.guard > 0

-----------------------------------------------------------------------------
(* Properties of the tag entry *)

\* C26: Update Tags with a track selected writes the entered tags to the row of
\* that track and leaves the tags of every other row as they were.
C26_UpdateWritesSelected ==
    (last.op = "update_tags" /\ last.arg.selected # {}) =>
        \A r \in songs :
            IF r.id \in last.arg.selected
            THEN r.tags = last.arg.tags
            ELSE \A q \in last.pre : q.id = r.id => r.tags = q.tags

-----------------------------------------------------------------------------
(* Properties of the batch operations *)

BulkRemoveRan == last.op = "bulk_tags" /\ last.arg.operation = "remove"

\* C19: after a bulk "remove" of the tag set R, every selected track that carried
\* a tag of R holds its former tag list without the members of R, in the former
\* order, and every other track holds exactly the tags text it held before.
C19_BulkRemove ==
    BulkRemoveRan =>
        \A r \in songs :
            LET before == CHOOSE q \in last.pre : q.id = r.id
                list == ParseTags(ShownTags(before))
                carries == \E i \in DOMAIN list : Member(list[i], last.arg.new_tags)
            IN IF r.id \in last.arg.selected /\ carries
               THEN ParseTags(ShownTags(r)) =
                        SelectSeq(list, LAMBDA tag : ~Member(tag, last.arg.new_tags))
               ELSE r.tags = before.tags

BatchRan ==
    \/ last.op \in {"bulk_delete", "bulk_tags"}
    \/ last.op = "create_playlist" /\ last.arg.type = "folder"

\* C20: at the end of a bulk delete, a bulk tag edit or a folder copy, the reported
\* success count plus the number of recorded failures is the number of items.
C20_BatchCounts == BatchRan => last.arg.done + last.arg.errors = last.arg.items

-----------------------------------------------------------------------------
(* Properties of the library view *)

\* s starts with prefix, ignoring case.
StartsWithNoCase(s, prefix) ==
    /\ s # NULL
    /\ Len(s) >= Len(prefix)
    /\ LowerStr(SubSeq(s, 1, Len(prefix))) = LowerStr(prefix)

\* s contains part, ignoring case.
ContainsNoCase(s, part) ==
    /\ s # NULL
    /\ \E i \in 1..(Len(s) - Len(part) + 1) :
           LowerStr(SubSeq(s, i, i + Len(part) - 1)) = LowerStr(part)

\* The selection rule of the claim.
FilterRule(r, f) ==
    IF f.path # EmptyStr
    THEN StartsWithNoCase(r.relative_path, f.path)
    ELSE /\ f.search # EmptyStr => ContainsNoCase(r.filename, f.search)
         /\ f.tag # EmptyStr => ContainsNoCase(r.tags, f.tag)
         /\ f.artist # EmptyStr => ContainsNoCase(r.artist, f.artist)
         /\ f.album # EmptyStr => ContainsNoCase(r.album, f.album)

\* C8: the view shows exactly the rows the rule selects: the path filter alone,
\* as a case-insensitive prefix, when it is set; otherwise the conjunction of the
\* other non-empty filters as case-insensitive substrings.
C8_ViewFollowsRule ==
    last.op = "filter" => tree = {r \in songs : FilterRule(r, filters)}

====
